---- MODULE Spec2Model ----
(***************************************************************************)
(* Model of scripts/uci_build_report.py: the normalisation and aggregation *)
(* pipeline of the ICU report (prepare, timeseries_and_census,             *)
(* compute_kpis, group_tables) and its field normalisers.                  *)
(*                                                                         *)
(* Text is a sequence of characters, each character a one-element string.  *)
(* The characters outside ASCII are written by name: "Oacute" is the       *)
(* precomposed O with acute accent, "COMB" the combining acute accent      *)
(* U+0301, "NBSP" the no-break space U+00A0.  A missing cell (NaN / None)  *)
(* is the one-element sequence NA.                                         *)
(***************************************************************************)
EXTENDS Integers, Sequences, FiniteSets, TLC

VARIABLES
    unit,     \* resolution of the timestamps pd.to_datetime builds: "ns" or "us"
    pc,       \* position of the run
    raw,      \* df_raw: the rows of the loaded table
    columns,  \* the columns of the table (of df_raw, then of df)
    df,       \* the table prepare() returns
    census,   \* the census series timeseries_and_census() returns
    kpis,     \* the dict compute_kpis() returns
    tables,   \* the tables group_tables() returns
    x,        \* argument of a direct call of a normaliser
    y         \* the call made and its result

vars == <<unit, pc, raw, columns, df, census, kpis, tables, x, y>>

\* ------------------------------------------------------------------ bounds
MaxRows == 2
MaxPieces == 2
MaxMissing == 1

\* -------------------------------------------------------------------- text
NA == <<"<NA>">>
None == <<"<None>">>

S_nan == <<"n","a","n">>
S_NaT == <<"N","a","T">>

\* Series.astype(str): a missing cell becomes the text "nan".
astype_str(v) == IF v = NA THEN S_nan ELSE v

UpperChars == <<"A","B","C","D","E","F","G","H","I","J","K","L","M","N","O","P","Q","R","S","T","U","V","W","X","Y","Z","Oacute","Iacute">>
LowerChars == <<"a","b","c","d","e","f","g","h","i","j","k","l","m","n","o","p","q","r","s","t","u","v","w","x","y","z","oacute","iacute">>

\* str.lower(), one character.
LowerChar(c) ==
    IF \E i \in 1..Len(UpperChars) : UpperChars[i] = c
    THEN LowerChars[CHOOSE i \in 1..Len(UpperChars) : UpperChars[i] = c]
    ELSE c

lower(s) == [i \in 1..Len(s) |-> LowerChar(s[i])]

\* unicodedata.normalize("NFKD", c) with the combining characters dropped.
FoldChar(c) ==
    CASE c = "Oacute" -> <<"O">>
      [] c = "Iacute" -> <<"I">>
      [] c = "oacute" -> <<"o">>
      [] c = "iacute" -> <<"i">>
      [] c = "eacute" -> <<"e">>
      [] c = "aacute" -> <<"a">>
      [] c = "COMB"   -> <<>>
      [] c = "NBSP"   -> <<" ">>
      [] OTHER        -> <<c>>

RECURSIVE FoldSeq(_)
FoldSeq(s) == IF s = <<>> THEN <<>> ELSE FoldChar(Head(s)) \o FoldSeq(Tail(s))

_accent_fold(s) == IF s = None THEN <<>> ELSE FoldSeq(s)

IsSpace(c) == c \in {" ", "NBSP"}

RECURSIVE lstrip(_)
lstrip(s) == IF s # <<>> /\ IsSpace(Head(s)) THEN lstrip(Tail(s)) ELSE s

RECURSIVE rstrip(_)
rstrip(s) ==
    IF s # <<>> /\ IsSpace(s[Len(s)]) THEN rstrip(SubSeq(s, 1, Len(s) - 1)) ELSE s

\* str.strip()
strip(s) == rstrip(lstrip(s))

\* str.rstrip(":")
RECURSIVE rstrip_colon(_)
rstrip_colon(s) ==
    IF s # <<>> /\ s[Len(s)] = ":" THEN rstrip_colon(SubSeq(s, 1, Len(s) - 1)) ELSE s

\* p in t
Contains(t, p) ==
    \E i \in 0..(Len(t) - Len(p)) : SubSeq(t, i + 1, i + Len(p)) = p

\* -------------------------------------------------------- canonical labels
L_Obito == <<"Oacute","b","i","t","o">>
L_AltaPiso == <<"A","l","t","a"," ","a"," ","p","i","s","o">>
L_Negativo == <<"N","e","g","a","t","i","v","o">>
L_PendienteHR == <<"P","e","n","d","i","e","n","t","e"," ","H","R"," ","i","n","g","r","e","s","o">>
L_HRPrevalencia == <<"H","R"," ","d","e"," ","P","r","e","v","a","l","e","n","c","i","a">>
L_HRIngreso == <<"H","R"," ","d","e"," ","I","n","g","r","e","s","o">>
L_PortadorMDR == <<"C","o","n","o","c","i","d","o"," ","p","o","r","t","a","d","o","r"," ","M","D","R">>
L_NoInformado == <<"N","o"," ","i","n","f","o","r","m","a","d","o">>

K_obito == <<"o","b","i","t","o">>
K_alta == <<"a","l","t","a">>
K_negativo == <<"n","e","g","a","t","i","v","o">>
K_pendiente_retorno == <<"p","e","n","d","i","e","n","t","e"," ","r","e","t","o","r","n","o">>
K_prevalencia == <<"p","r","e","v","a","l","e","n","c","i","a">>
K_ingreso == <<"i","n","g","r","e","s","o">>
K_portador == <<"p","o","r","t","a","d","o","r">>
K_plasmido == <<"p","l","a","s","m","i","d","o">>
K_mdr == <<"m","d","r">>

canon_outcome(v) ==
    IF v \in {NA, None} THEN <<>>
    ELSE LET t == rstrip_colon(strip(lower(_accent_fold(v))))
         IN  IF Contains(t, K_obito) THEN L_Obito
             ELSE IF Contains(t, K_alta) THEN L_AltaPiso
             ELSE rstrip_colon(strip(v))

\* canon_kpc with the test for "ingreso" made before the test for
\* "prevalencia".
canon_kpc_ingreso_first(v) ==
    IF v \in {NA, None} THEN <<>>
    ELSE LET t == lower(_accent_fold(v))
         IN  IF Contains(t, K_negativo) THEN L_Negativo
             ELSE IF Contains(t, K_pendiente_retorno) THEN L_PendienteHR
             ELSE IF Contains(t, K_ingreso) THEN L_HRIngreso
             ELSE IF Contains(t, K_prevalencia) THEN L_HRPrevalencia
             ELSE IF Contains(t, K_portador) \/ Contains(t, K_plasmido) \/ Contains(t, K_mdr)
                  THEN L_PortadorMDR
             ELSE v

canon_kpc(v) ==
    IF v \in {NA, None} THEN <<>>
    ELSE LET t == lower(_accent_fold(v))
         IN  IF Contains(t, K_negativo) THEN L_Negativo
             ELSE IF Contains(t, K_pendiente_retorno) THEN L_PendienteHR
             ELSE IF Contains(t, K_prevalencia) THEN L_HRPrevalencia
             ELSE IF Contains(t, K_ingreso) THEN L_HRIngreso
             ELSE IF Contains(t, K_portador) \/ Contains(t, K_plasmido) \/ Contains(t, K_mdr)
                  THEN L_PortadorMDR
             ELSE v

\* The dictionary repl of canon_servicio, as <<key, value>> pairs.
repl ==
    { << <<"T","r","a","u","m","a","t","o","l","o","g","i","a">>,
         <<"T","r","a","u","m","a","t","o","l","o","g","iacute","a">> >>,
      << <<"U","r","o","l","o","g","i","a">>,
         <<"U","r","o","l","o","g","iacute","a">> >>,
      << <<"M","a","s","t","o","l","o","g","i","a">>,
         <<"M","a","s","t","o","l","o","g","iacute","a">> >>,
      << <<"I","P","S"," ","I","N","T","E","R","I","O","R">>,
         <<"I","P","S"," ","I","n","t","e","r","i","o","r">> >>,
      << <<"R","e","a","n","i","m","a","c","i","o","n">>,
         <<"R","e","a","n","i","m","a","c","i","oacute","n">> >>,
      << <<"C","l","i","n","i","c","a"," ","M","e","d","i","c","a">>,
         <<"C","l","iacute","n","i","c","a"," ","M","eacute","d","i","c","a">> >> }

canon_servicio(v) ==
    IF v \in {NA, None} THEN <<>>
    ELSE LET t == strip(_accent_fold(v))
         IN  IF \E e \in repl : e[1] = t
             THEN (CHOOSE e \in repl : e[1] = t)[2]
             ELSE v

\* ----------------------------------------------------------------- to_bool
si == { <<"s","i">>, <<"s","iacute">>, <<"y","e","s">>, <<"y">>, <<"1">>,
        <<"t","r","u","e">>, <<"v","e","r","d","a","d","e","r","o">> }
no == { <<"n","o">>, <<"n">>, <<"0">>, <<"f","a","l","s","e">>, <<"f","a","l","s","o">> }

\* to_bool without the str.lower() step.
to_bool_no_lower(v) ==
    LET s == strip(astype_str(v))
    IN  IF s \in no THEN "False" ELSE IF s \in si THEN "True" ELSE "NA"

\* One element of the boolean series to_bool returns: "True", "False" or "NA".
to_bool(v) ==
    LET s == lower(strip(astype_str(v)))
        out0 == "NA"
        out1 == IF s \in si THEN "True" ELSE out0
    IN  IF s \in no THEN "False" ELSE out1

\* ------------------------------------------------------------------- dates
\* A date cell is a record: kind "na" is a missing cell, "blank" the empty
\* text, "nan" and "NaT" those literal texts, "junk" a text that is no date,
\* "dmy" the text a/b/c hh:00 and "iso" the text a-b-c hh:00 (a the year).
\* White space around the text is not modelled.
Cell(kind, a, b, c, hh) == [kind |-> kind, a |-> a, b |-> b, c |-> c, hh |-> hh]
NoDate(kind) == Cell(kind, 0, 0, 0, 0)

\* A Timestamp, to the hour.  NaT has year 0, which no timestamp has.
Ts(yr, mo, dy, hh) == [year |-> yr, month |-> mo, day |-> dy, hour |-> hh]
NaT == Ts(0, 0, 0, 0)
notna(t) == t # NaT

IsLeap(yr) == (yr % 4 = 0 /\ yr % 100 # 0) \/ yr % 400 = 0

DaysInMonth(yr, mo) ==
    IF mo = 2 THEN (IF IsLeap(yr) THEN 29 ELSE 28)
    ELSE IF mo \in {4, 6, 9, 11} THEN 30 ELSE 31

ValidDate(yr, mo, dy) ==
    /\ yr \in 1..9999
    /\ mo \in 1..12
    /\ dy >= 1
    /\ dy <= DaysInMonth(yr, mo)

\* Timestamp.date() as a day number (date.toordinal() up to a constant).
Ord(t) ==
    LET yy == IF t.month <= 2 THEN t.year - 1 ELSE t.year
        mm == IF t.month <= 2 THEN t.month + 9 ELSE t.month - 3
    IN  365 * yy + (yy \div 4) - (yy \div 100) + (yy \div 400)
          + ((153 * mm + 2) \div 5) + t.day - 1

\* The instant of a timestamp, in hours.
Hours(t) == 24 * Ord(t) + t.hour

\* The timestamps a datetime64 of the unit can hold.  With nanoseconds:
\* 1677-09-21 00:12:43 .. 2262-04-11 23:47:16; with microseconds every year
\* the parser accepts.
InBounds(u, t) ==
    \/ u = "us"
    \/ /\ Hours(t) >= Hours(Ts(1677, 9, 21, 1))
       /\ Hours(t) <= Hours(Ts(2262, 4, 11, 23))

\* pd.to_datetime(s, dayfirst=True, errors="coerce"), one element: the day
\* comes first unless that gives no month; what is no date, no calendar date
\* or out of the unit's bounds is coerced to NaT.
to_datetime(u, c) ==
    LET t == IF c.kind = "iso" THEN Ts(c.a, c.b, c.c, c.hh)
             ELSE IF c.b > 12 /\ c.a <= 12 THEN Ts(c.c, c.a, c.b, c.hh)
             ELSE Ts(c.c, c.b, c.a, c.hh)
    IN  IF c.kind \notin {"dmy", "iso"} THEN NaT
        ELSE IF ~ValidDate(t.year, t.month, t.day) THEN NaT
        ELSE IF ~InBounds(u, t) THEN NaT
        ELSE t

\* _fix of parse_date_series.
_fix(t) ==
    IF t = NaT THEN NaT
    ELSE IF 1000 <= t.year /\ t.year <= 1100
         THEN IF ValidDate(t.year + 1000, t.month, t.day)
              THEN [t EXCEPT !.year = t.year + 1000]
              ELSE t
         ELSE t

\* parse_date_series, one element: "", "NaT", "nan" and the missing cell
\* (astype(str) makes it "nan") are replaced by NA before parsing.
parse_date_series(u, c) ==
    IF c.kind \in {"na", "blank", "nan", "NaT"} THEN NaT
    ELSE _fix(to_datetime(u, c))

\* -------------------------------------------------------------- numbers
\* A numeric cell is a record: kind "na" is a missing cell, "int" the text of
\* the whole number v, "frac" the text of a number with a fractional part,
\* "junk" a text that is no number.
NumCell(kind, v) == [kind |-> kind, v |-> v]

\* A value of a nullable integer column (Int64).
IntNA == [na |-> TRUE, v |-> 0]
IntOf(v) == [na |-> FALSE, v |-> v]

\* pd.to_numeric(sr, errors="coerce").astype("Int64"), one element.
to_int(c) == IF c.kind = "int" THEN IntOf(c.v) ELSE IntNA

\* astype("Int64") raises when the coerced float column holds a value with a
\* fractional part.
to_int_raises(col) == \E i \in 1..Len(col) : col[i].kind = "frac"

\* A float that is a quotient of integers; d = 0 stands for NaN.
Frac(n, d) == [n |-> n, d |-> d]
IsNaN(q) == q.d = 0
IsZero(q) == q.d # 0 /\ q.n = 0

\* safe_pct without the zero guard.
safe_pct_no_guard(num, den) == Frac(100 * num, den)

safe_pct(num, den) == IF den # 0 THEN Frac(100 * num, den) ELSE Frac(0, 1)

\* ---------------------------------------------------------------- prepare
\* The columns of COLMAP the model carries.
RawCols ==
    { "fec_ing", "fec_egr", "los", "cond_egreso", "medico", "origen", "tipo",
      "kpc_mbl", "vvc", "cateter_hd", "lineas_art", "vi" }

IntCols == {"los", "vvc", "cateter_hd", "lineas_art"}

Column(rows, col) == [i \in 1..Len(rows) |-> rows[i][col]]

\* (df["fec_egr"] - df["fec_ing"]).dt.days, kept where it is >= 0.
los_calc(ing, egr) ==
    IF ing = NaT \/ egr = NaT THEN IntNA
    ELSE LET days == (Hours(egr) - Hours(ing)) \div 24
         IN  IF days >= 0 THEN IntOf(days) ELSE IntNA

\* Series.fillna(other), one element.
fillna(a, b) == IF a.na THEN b ELSE a

\* los_calc is computed when both date columns are in the table.
HasLosCalc(cols) == "fec_ing" \in cols /\ "fec_egr" \in cols

\* One row of the table prepare builds, before the filter.  idx is the index
\* label of the row, which the filter keeps.  A step of prepare is skipped
\* when its column is not in cols (`if col in df.columns`); the field of a
\* column that the table does not have holds the absent value of its type
\* and stands for no cell.
PrepareRow(u, cols, i, r) ==
    LET date(c) == IF c \in cols THEN parse_date_series(u, r[c]) ELSE NaT
        int(c) == IF c \in cols THEN to_int(r[c]) ELSE IntNA
        ing == date("fec_ing")
        egr == date("fec_egr")
        los == int("los")
        calc == IF HasLosCalc(cols) THEN los_calc(ing, egr) ELSE IntNA
    IN  [ idx |-> i,
          fec_ing |-> ing,
          fec_egr |-> egr,
          los |-> los,
          vvc |-> int("vvc"),
          cateter_hd |-> int("cateter_hd"),
          lineas_art |-> int("lineas_art"),
          vi |-> IF "vi" \in cols THEN to_bool(r.vi) ELSE "NA",
          cond_egreso |-> IF "cond_egreso" \in cols
                          THEN canon_outcome(astype_str(r.cond_egreso)) ELSE NA,
          kpc_mbl |-> IF "kpc_mbl" \in cols
                      THEN canon_kpc(astype_str(r.kpc_mbl)) ELSE NA,
          origen |-> IF "origen" \in cols
                     THEN canon_servicio(astype_str(r.origen)) ELSE NA,
          tipo |-> IF "tipo" \in cols THEN strip(astype_str(r.tipo)) ELSE NA,
          medico |-> IF "medico" \in cols THEN strip(astype_str(r.medico)) ELSE NA,
          los_calc |-> calc,
          los_final |-> fillna(los, calc) ]

\* The filter of prepare dropped: every row is kept.
KeepRow_all(r) == TRUE

\* df[df["fec_ing"].notna()]
KeepRow(r) == notna(r.fec_ing)

\* prepare raises: in to_int (line 209); at line 232, where df.get("los") is
\* None when the table has no column los, and None has no fillna; at line
\* 235, where df["fec_ing"] is a KeyError when the table has no such column.
prepare_raises(cols, rows) ==
    \/ \E col \in IntCols \cap cols : to_int_raises(Column(rows, col))
    \/ "los" \notin cols
    \/ "fec_ing" \notin cols

\* df.get("los").fillna(None), when the table has los and no los_calc: pandas
\* up to 2.x raises ValueError (no fill value), and what later versions do
\* with a None value is not fixed by the source; both outcomes are allowed.
fillna_None(cols) == "los" \in cols /\ ~HasLosCalc(cols)

\* The columns of the table prepare returns.
prepare_columns(cols) ==
    cols \cup (IF HasLosCalc(cols) THEN {"los_calc"} ELSE {}) \cup {"los_final"}

prepare(u, cols, rows) ==
    SelectSeq([i \in 1..Len(rows) |-> PrepareRow(u, cols, i, rows[i])], KeepRow)

\* ------------------------------------------------- timeseries_and_census
\* Series.min() and Series.max() of a timestamp column: NaT is skipped, and
\* NaT is the result when nothing is left.
TsSet(col) == {col[i] : i \in 1..Len(col)} \ {NaT}
TsMin(col) ==
    IF TsSet(col) = {} THEN NaT
    ELSE CHOOSE t \in TsSet(col) : \A o \in TsSet(col) : Hours(t) <= Hours(o)
TsMax(col) ==
    IF TsSet(col) = {} THEN NaT
    ELSE CHOOSE t \in TsSet(col) : \A o \in TsSet(col) : Hours(o) <= Hours(t)

EarlierOf(a, b) == IF Hours(b) < Hours(a) THEN b ELSE a
LaterOf(a, b) == IF Hours(b) > Hours(a) THEN b ELSE a

AnyNotna(col) == TsSet(col) # {}

\* start and end of timeseries_and_census.
SpanStart(t) ==
    IF AnyNotna(Column(t, "fec_egr"))
    THEN EarlierOf(TsMin(Column(t, "fec_ing")), TsMin(Column(t, "fec_egr")))
    ELSE TsMin(Column(t, "fec_ing"))
SpanEnd(t) ==
    IF AnyNotna(Column(t, "fec_egr"))
    THEN LaterOf(TsMax(Column(t, "fec_ing")), TsMax(Column(t, "fec_egr")))
    ELSE TsMax(Column(t, "fec_ing"))

\* pd.date_range(a, b, freq="D").date: the days of a, a + 24 h, a + 48 h, ...
\* while the instant is not after b.
date_range(a, b) ==
    [k \in 1..((Hours(b) - Hours(a)) \div 24 + 1) |-> Ord(a) + k - 1]

\* The days d0..d1 of one row in the census loop.
RowFirstDay(r) == Ord(r.fec_ing)
RowLastDay(r) == IF notna(r.fec_egr) THEN Ord(r.fec_egr) ELSE Ord(r.fec_ing)

\* The census loop: every day of d0..d1 that is in the index is incremented.
RECURSIVE CensusLoop(_, _, _)
CensusLoop(c, t, i) ==
    IF i > Len(t) THEN c
    ELSE CensusLoop(
           [d \in DOMAIN c |->
              IF RowFirstDay(t[i]) <= d /\ d <= RowLastDay(t[i]) THEN c[d] + 1 ELSE c[d]],
           t, i + 1)

\* groupby(date).size() reindexed on idx with the gaps filled by 0.
CountOn(t, col, d) ==
    Cardinality({i \in 1..Len(t) : notna(t[i][col]) /\ Ord(t[i][col]) = d})

\* pd.date_range raises when start or end is NaT (an empty table).
census_raises(t) == Len(t) = 0

timeseries_and_census(t) ==
    LET idx == date_range(SpanStart(t), SpanEnd(t))
        days == {idx[k] : k \in 1..Len(idx)}
    IN  [ idx |-> idx,
          Admisiones |-> [d \in days |-> CountOn(t, "fec_ing", d)],
          Egresos |-> [d \in days |-> CountOn(t, "fec_egr", d)],
          census |-> CensusLoop([d \in days |-> 0], t, 1) ]

\* ------------------------------------------------------------ compute_kpis
HasEgreso(r) == notna(r.fec_egr)
IsObito(r) == r.cond_egreso = L_Obito

\* df["fec_egr"].notna().sum() and (df["cond_egreso"] == "Óbito").sum()
CountEgresos(t) == Cardinality({i \in 1..Len(t) : HasEgreso(t[i])})
CountObitos(t) == Cardinality({i \in 1..Len(t) : IsObito(t[i])})

\* df[col].fillna(0).sum()
RECURSIVE SumFilled(_, _)
SumFilled(t, col) ==
    IF t = <<>> THEN 0
    ELSE (IF Head(t)[col].na THEN 0 ELSE Head(t)[col].v) + SumFilled(Tail(t), col)

periodo_fin(t) ==
    IF AnyNotna(Column(t, "fec_egr"))
    THEN TsMax(Column(t, "fec_egr"))
    ELSE TsMax(Column(t, "fec_ing"))

\* The entries of the dict that the model carries (the medians, the means and
\* vi_rate are left out).
compute_kpis(t) ==
    LET n == Len(t)
        egresos == CountEgresos(t)
        obitos == CountObitos(t)
    IN  [ admisiones |-> n,
          egresos |-> egresos,
          obitos |-> obitos,
          mort_sobre_egresos |-> safe_pct(obitos, egresos),
          mort_sobre_admisiones |-> safe_pct(obitos, n),
          vvc_per100 |-> safe_pct(SumFilled(t, "vvc"), n),
          hd_per100 |-> safe_pct(SumFilled(t, "cateter_hd"), n),
          la_per100 |-> safe_pct(SumFilled(t, "lineas_art"), n),
          periodo_ini |-> TsMin(Column(t, "fec_ing")),
          periodo_fin |-> periodo_fin(t) ]

\* ------------------------------------------------------------ group_tables
TopN == 10

\* Series.round(1) of num / den * 100, in tenths (half to even).
RoundTenths(num, den) ==
    LET q == (1000 * num) \div den
        r == (1000 * num) % den
    IN  IF 2 * r < den THEN q
        ELSE IF 2 * r > den THEN q + 1
        ELSE IF q % 2 = 0 THEN q ELSE q + 1

\* A value of the column Mort.%: NaN, or a number of tenths.
MortNaN == [nan |-> TRUE, tenths |-> 0]
MortOf(tenths) == [nan |-> FALSE, tenths |-> tenths]

\* obitos / egresos.replace(0, np.nan) * 100, rounded.
GroupMort(obitos, egresos) ==
    IF egresos = 0 THEN MortNaN ELSE MortOf(RoundTenths(obitos, egresos))

GroupKeys(t, col) == {t[i][col] : i \in 1..Len(t)}

GroupMembers(t, col, k) == {i \in 1..Len(t) : t[i][col] = k}

\* One row of a table of groupby(col, dropna=False): Casos, Obitos, Mort.%
\* (the medians are left out).
GroupRow(t, col, k) ==
    LET g == GroupMembers(t, col, k)
        obitos == Cardinality({i \in g : IsObito(t[i])})
        egresos == Cardinality({i \in g : HasEgreso(t[i])})
    IN  [ key |-> k,
          Casos |-> Cardinality(g),
          Obitos |-> obitos,
          Mort |-> GroupMort(obitos, egresos) ]

\* A table as the set of its rows; the order of the rows is not modelled.
GroupTable(t, col) == {GroupRow(t, col, k) : k \in GroupKeys(t, col)}

\* sort_values("Casos", ascending=False).head(n): the n rows with the most
\* cases; which of several rows with equal cases are kept is up to the sort.
HeadSets(rows, n) ==
    IF Cardinality(rows) <= n THEN {rows}
    ELSE {S \in SUBSET rows :
            /\ Cardinality(S) = n
            /\ \A a \in S : \A b \in rows \ S : a.Casos >= b.Casos}

\* Series.fillna("No informado"), one element of a text column.
fillna_label(v) == IF v = NA THEN L_NoInformado ELSE v

\* df["kpc_mbl"].fillna("No informado").value_counts()
KpcTable(t) ==
    LET col == [i \in 1..Len(t) |-> fillna_label(t[i].kpc_mbl)]
    IN  { [Estado |-> k, Pacientes |-> Cardinality({i \in 1..Len(t) : col[i] = k})] :
            k \in {col[i] : i \in 1..Len(t)} }

\* ------------------------------------------------------------- the pipeline
\* No normaliser has been called directly.
NoCall == [f |-> "none", arg |-> <<>>, v |-> <<>>]

D_na == NoDate("na")
D_0503_20h == Cell("dmy", 5, 3, 2025, 20)
D_0703_08h == Cell("dmy", 7, 3, 2025, 8)
D_0703_1025 == Cell("dmy", 7, 3, 1025, 0)
D_0403_00h == Cell("dmy", 4, 3, 2025, 0)
D_0603_08h == Cell("dmy", 6, 3, 2025, 8)
D_0803_00h == Cell("dmy", 8, 3, 2025, 0)

N_na == NumCell("na", 0)

T_ObitoRaw == <<"Oacute","B","I","T","O",":">>
T_AltaRaw == <<"A","l","t","a"," ","a"," ","P","i","s","o">>
T_DrA == <<"D","r"," ","A">>
T_DrB == <<" ","D","r"," ","B">>
T_Urologia == <<"U","r","o","l","o","g","i","a">>
T_UTI == <<"U","T","I">>
T_PendRetorno == <<"p","e","n","d","i","e","n","t","e"," ","r","e","t","o","r","n","o">>

BaseRow ==
    [ fec_ing |-> D_0503_20h, fec_egr |-> D_na, los |-> N_na,
      cond_egreso |-> T_AltaRaw, medico |-> T_DrA, origen |-> T_Urologia,
      tipo |-> <<"Q">>, kpc_mbl |-> NA, vi |-> <<"S","I">>,
      vvc |-> N_na, cateter_hd |-> N_na, lineas_art |-> N_na ]

\* Rows that differ in the two dates.
RowsDates ==
    { [BaseRow EXCEPT !.fec_ing = i, !.fec_egr = e] :
        i \in {D_na, D_0503_20h, D_0703_08h, D_0703_1025},
        e \in {D_na, D_0403_00h, D_0603_08h, D_0803_00h} }

\* Rows that differ in the recorded length of stay.
RowsLos ==
    { [BaseRow EXCEPT !.los = l, !.fec_egr = e] :
        l \in {NumCell("int", 3), NumCell("int", -2), NumCell("junk", 0), NumCell("frac", 0)},
        e \in {D_na, D_0403_00h, D_0803_00h} }

\* Rows that differ in the outcome, the discharge and the group keys.
RowsKpi ==
    { [BaseRow EXCEPT !.cond_egreso = c, !.fec_egr = e, !.medico = m[1],
                      !.origen = m[2], !.tipo = m[3]] :
        c \in {T_ObitoRaw, NA},
        e \in {D_na, D_0803_00h},
        m \in { <<T_DrA, T_Urologia, <<"Q">> >>, <<T_DrB, T_UTI, <<"C"," ">> >> } }
    \cup { [BaseRow EXCEPT !.vvc = NumCell("int", 2), !.cateter_hd = NumCell("int", 1),
                           !.lineas_art = NumCell("junk", 0), !.kpc_mbl = T_PendRetorno] }

\* Rows with one malformed value: a date that is no date, a token that is
\* neither yes nor no.  (RowsLos has the counts that are no whole number.)
RowsMalformed ==
    { [BaseRow EXCEPT !.fec_egr = NoDate("junk")],
      [BaseRow EXCEPT !.fec_ing = NoDate("junk")],
      [BaseRow EXCEPT !.vi = <<"q","u","i","z","a","s">>] }

\* A row whose physician, origin and patient type are missing cells.
RowsAbsent ==
    { [BaseRow EXCEPT !.medico = NA, !.origen = NA, !.tipo = NA,
                      !.fec_egr = D_0803_00h] }

Rows == RowsDates \cup RowsLos \cup RowsKpi \cup RowsMalformed \cup RowsAbsent

Init ==
    /\ unit \in {"ns", "us"}
    /\ pc = "load"
    /\ raw = <<>>
    /\ columns = RawCols
    /\ df = <<>>
    /\ census = <<>>
    /\ kpis = <<>>
    /\ tables = <<>>
    /\ x = <<>>
    /\ y = NoCall

\* load_data: one more row of the table that is loaded.
LoadRow ==
    /\ pc = "load"
    /\ Len(raw) < MaxRows
    /\ \E r \in Rows : raw' = Append(raw, r)
    /\ UNCHANGED <<unit, pc, columns, df, census, kpis, tables, x, y>>

Prepare ==
    /\ pc = "load"
    /\ \E fails \in IF prepare_raises(columns, raw) THEN {TRUE}
                      ELSE IF fillna_None(columns) THEN {TRUE, FALSE}
                      ELSE {FALSE} :
          IF fails
          THEN pc' = "error" /\ df' = df /\ columns' = columns
          ELSE /\ pc' = "prepared"
               /\ df' = prepare(unit, columns, raw)
               /\ columns' = prepare_columns(columns)
    /\ UNCHANGED <<unit, raw, census, kpis, tables, x, y>>

TimeseriesAndCensus ==
    /\ pc = "prepared"
    /\ IF census_raises(df)
       THEN pc' = "error" /\ census' = census
       ELSE pc' = "census" /\ census' = timeseries_and_census(df)
    /\ UNCHANGED <<unit, raw, columns, df, kpis, tables, x, y>>

ComputeKpis ==
    /\ pc = "prepared"
    /\ pc' = "kpis"
    /\ kpis' = compute_kpis(df)
    /\ UNCHANGED <<unit, raw, columns, df, census, tables, x, y>>

GroupTables ==
    /\ pc = "prepared"
    /\ pc' = "tables"
    /\ \E porigen \in HeadSets(GroupTable(df, "origen"), TopN) :
       \E ptipo \in HeadSets(GroupTable(df, "tipo"), TopN) :
          tables' = [ por_medico |-> GroupTable(df, "medico"),
                      por_origen |-> porigen,
                      por_tipo |-> ptipo,
                      kpc |-> KpcTable(df) ]
    /\ UNCHANGED <<unit, raw, columns, df, census, kpis, x, y>>

\* main: the table is loaded and prepared, and the census, the KPIs and the
\* group tables are each computed from the prepared table.
Next ==
    \/ LoadRow
    \/ Prepare
    \/ TimeseriesAndCensus
    \/ ComputeKpis
    \/ GroupTables

Spec == Init /\ [][Next]_vars

\* ------------------------------------------------- claims on the pipeline
HasTable == pc \in {"prepared", "census", "kpis", "tables"}

\* What the raw row i holds, parsed.
RawIng(i) == parse_date_series(unit, raw[i].fec_ing)
RawEgr(i) == parse_date_series(unit, raw[i].fec_egr)

\* The raw rows whose admission date parsed.
Admitted == {i \in 1..Len(raw) : RawIng(i) # NaT}

RECURSIVE FnSum(_)
FnSum(f) ==
    IF DOMAIN f = {} THEN 0
    ELSE LET d == CHOOSE e \in DOMAIN f : TRUE
         IN  f[d] + FnSum([e \in DOMAIN f \ {d} |-> f[e]])

\* The first and the last calendar day of the stay of raw row i.
StayFirst(i) == Ord(RawIng(i))
StayLast(i) == IF RawEgr(i) # NaT THEN Ord(RawEgr(i)) ELSE Ord(RawIng(i))

\* C1: a raw row is in the table prepare returns if and only if its admission
\* date parsed to a timestamp, and only those rows are counted by the daily
\* census, by the KPI counts (admissions, egresses, deaths) and by the group
\* tables.
C1_OnlyAdmittedRows ==
    HasTable =>
        /\ {df[j].idx : j \in 1..Len(df)} = Admitted
        /\ Len(df) = Cardinality(Admitted)
        /\ pc = "kpis" =>
              /\ kpis.admisiones = Cardinality(Admitted)
              /\ kpis.egresos = Cardinality({i \in Admitted : RawEgr(i) # NaT})
              /\ kpis.obitos = Cardinality({i \in Admitted :
                     canon_outcome(astype_str(raw[i].cond_egreso)) = L_Obito})
        /\ pc = "census" =>
              \A d \in DOMAIN census.census :
                  /\ census.census[d] = Cardinality({i \in Admitted :
                         StayFirst(i) <= d /\ d <= StayLast(i)})
                  /\ census.Admisiones[d] = Cardinality({i \in Admitted : StayFirst(i) = d})
        /\ pc = "tables" =>
              /\ FnSum([g \in tables.por_medico |-> g.Casos]) = Cardinality(Admitted)
              /\ FnSum([g \in tables.por_origen |-> g.Casos]) = Cardinality(Admitted)
              /\ FnSum([g \in tables.por_tipo |-> g.Casos]) = Cardinality(Admitted)
              /\ FnSum([g \in tables.kpc |-> g.Pacientes]) = Cardinality(Admitted)

\* Of two rows, one with a date text that did not parse was dropped and the
\* census was built from the other.
C1_Witness ==
    /\ pc = "census"
    /\ Len(raw) = 2
    /\ Len(df) = 1
    /\ \E i \in 1..Len(raw) : raw[i].fec_ing.kind = "dmy" /\ RawIng(i) = NaT

\* C2: for every row prepare returns, los_final is the recorded length of
\* stay when that is present; otherwise the whole-day difference discharge
\* minus admission when both timestamps are present and it is >= 0; otherwise
\* absent.  In every case los_final is not a negative number.
C2_LosFinalNeverNegative ==
    HasTable =>
        \A j \in 1..Len(df) :
            LET i == df[j].idx
                rec == to_int(raw[i].los)
                diff == (Hours(RawEgr(i)) - Hours(RawIng(i))) \div 24
            IN  /\ df[j].los_final =
                      IF ~rec.na THEN rec
                      ELSE IF RawIng(i) # NaT /\ RawEgr(i) # NaT /\ diff >= 0
                           THEN IntOf(diff)
                           ELSE IntNA
                /\ df[j].los_final.na \/ df[j].los_final.v >= 0

\* The first admission day and the last day of any admission or discharge.
FirstAdmissionDay ==
    CHOOSE d \in {Ord(df[j].fec_ing) : j \in 1..Len(df)} :
        \A j \in 1..Len(df) : d <= Ord(df[j].fec_ing)
AllDays ==
    {Ord(df[j].fec_ing) : j \in 1..Len(df)}
        \cup {Ord(df[j].fec_egr) : j \in {k \in 1..Len(df) : df[k].fec_egr # NaT}}
LastDay == CHOOSE d \in AllDays : \A e \in AllDays : e <= d

\* The rows whose closed interval of days holds d.
Present(d) ==
    {j \in 1..Len(df) :
        /\ Ord(df[j].fec_ing) <= d
        /\ d <= (IF df[j].fec_egr # NaT THEN Ord(df[j].fec_egr) ELSE Ord(df[j].fec_ing))}

\* C3: the daily census has exactly one entry for every calendar day from the
\* first admission date to the last of all discharge and admission dates, and
\* its value on each of those days is the number of rows whose closed
\* interval [admission date, discharge date] (the admission date alone when
\* the discharge is absent) holds the day, whatever the times of day are.
C3_CensusEveryDay ==
    pc = "census" =>
        /\ census.idx = [k \in 1..(LastDay - FirstAdmissionDay + 1) |-> FirstAdmissionDay + k - 1]
        /\ DOMAIN census.census = FirstAdmissionDay..LastDay
        /\ \A d \in FirstAdmissionDay..LastDay :
              census.census[d] = Cardinality(Present(d))

\* C4: every row increments at least one census day, so the sum of the daily
\* census over all days is at least the number of rows.
C4_CensusSumAtLeastRows ==
    pc = "census" => FnSum(census.census) >= Len(df)

Egresses == CountEgresos(df)
Deaths == CountObitos(df)

\* C5 (as stated): mort_sobre_egresos lies in [0, 100], and it is 0 exactly
\* when the egress count is 0, whatever the death count.
C5_MortEgresosZeroIffNoEgress ==
    pc = "kpis" =>
        LET m == kpis.mort_sobre_egresos
        IN  /\ m.d > 0
            /\ 0 <= m.n
            /\ m.n <= 100 * m.d
            /\ IsZero(m) <=> Egresses = 0

\* C5 (as amended): mort_sobre_egresos is a number that is never negative; it
\* is 0 whenever the egress count is 0, whatever the death count; with a
\* positive egress count it is death count / egress count * 100, so it is 0
\* only when there is no death, and at most 100 only when the deaths do not
\* outnumber the egresses.
C5_MortEgresosGuarded ==
    pc = "kpis" =>
        LET m == kpis.mort_sobre_egresos
        IN  /\ m.d > 0
            /\ 0 <= m.n
            /\ Egresses = 0 => IsZero(m)
            /\ Egresses > 0 =>
                  /\ m.n * Egresses = 100 * Deaths * m.d
                  /\ IsZero(m) <=> Deaths = 0
                  /\ m.n <= 100 * m.d <=> Deaths <= Egresses

\* A death without a discharge timestamp: no egress, and the rate is 0.
C5_Witness ==
    /\ pc = "kpis"
    /\ Egresses = 0
    /\ Deaths > 0
    /\ IsZero(kpis.mort_sobre_egresos)

GroupEgresses(col, k) ==
    Cardinality({j \in 1..Len(df) : df[j][col] = k /\ df[j].fec_egr # NaT})

\* C6: every rate is 0, not NaN and not an exception, when its denominator is
\* 0: in each group table (by physician, origin, patient type) a group with no
\* egress has mortality percentage 0, and with no admission the device rates
\* and mortality-over-admissions of the KPIs are 0.
C6_RatesZeroOnZeroDenominator ==
    /\ pc = "tables" =>
          /\ \A g \in tables.por_medico :
                GroupEgresses("medico", g.key) = 0 => g.Mort = MortOf(0)
          /\ \A g \in tables.por_origen :
                GroupEgresses("origen", g.key) = 0 => g.Mort = MortOf(0)
          /\ \A g \in tables.por_tipo :
                GroupEgresses("tipo", g.key) = 0 => g.Mort = MortOf(0)
    /\ pc = "kpis" =>
          /\ Egresses = 0 => IsZero(kpis.mort_sobre_egresos)
          /\ Len(df) = 0 =>
                /\ IsZero(kpis.mort_sobre_admisiones)
                /\ IsZero(kpis.vvc_per100)
                /\ IsZero(kpis.hd_per100)
                /\ IsZero(kpis.la_per100)

\* C7: for a table that is not empty, periodo_ini is the first admission and
\* periodo_fin the later of the last discharge and the last admission, so
\* periodo_fin is not before any admission.
C7_PeriodoCoversAdmissions ==
    (pc = "kpis" /\ Len(df) > 0) =>
        /\ \A j \in 1..Len(df) : Hours(kpis.periodo_ini) <= Hours(df[j].fec_ing)
        /\ \E j \in 1..Len(df) : kpis.periodo_ini = df[j].fec_ing
        /\ \A j \in 1..Len(df) :
              /\ Hours(df[j].fec_ing) <= Hours(kpis.periodo_fin)
              /\ df[j].fec_egr # NaT => Hours(df[j].fec_egr) <= Hours(kpis.periodo_fin)
        /\ \E j \in 1..Len(df) : kpis.periodo_fin \in {df[j].fec_ing, df[j].fec_egr}

\* ------------------------------------------- direct calls of the normalisers
\* The pieces the argument texts are built from.
Pieces ==
    { <<"Oacute","B","I","T","O">>, <<"A","l","t","a">>, <<":">>, <<" ">>, <<" ",":">>,
      <<"U","T","I">>,
      <<"p","e","n","d","i","e","n","t","e"," ","r","e","t","o","r","n","o">>,
      <<"n","e","g","a","t","i","v","o">>, <<"i","n","g","r","e","s","o">>,
      <<"P","r","e","v","a","l","e","n","c","i","a">>, <<"M","D","R">>,
      <<"P","l","aacute","s","m","i","d","o">>, <<"p","o","r","t","a","d","o","r">>,
      <<"U","r","o","l","o","g","i","a">>,
      <<"S","Iacute">>, <<"s","i","COMB">>, <<"N","o">>, <<"NBSP">>,
      <<"n","oacute">>, <<"1">>, <<"F","a","l","s","o">> }

RECURSIVE Flatten(_)
Flatten(ps) == IF ps = <<>> THEN <<>> ELSE Head(ps) \o Flatten(Tail(ps))

InitText ==
    /\ unit = "ns"
    /\ pc = "text"
    /\ raw = <<>>
    /\ columns = {}
    /\ df = <<>>
    /\ census = <<>>
    /\ kpis = <<>>
    /\ tables = <<>>
    /\ x = <<>>
    /\ y = NoCall

TextAddPiece ==
    /\ pc = "text"
    /\ y.f = "none"
    /\ Len(x) < MaxPieces
    /\ \E p \in Pieces : x' = Append(x, p)
    /\ UNCHANGED <<unit, pc, raw, columns, df, census, kpis, tables, y>>

CallCanonOutcome ==
    /\ pc = "text"
    /\ y.f = "none"
    /\ y' = [f |-> "canon_outcome", arg |-> Flatten(x), v |-> canon_outcome(Flatten(x))]
    /\ UNCHANGED <<unit, pc, raw, columns, df, census, kpis, tables, x>>

CallCanonKpc ==
    /\ pc = "text"
    /\ y.f = "none"
    /\ y' = [f |-> "canon_kpc", arg |-> Flatten(x), v |-> canon_kpc(Flatten(x))]
    /\ UNCHANGED <<unit, pc, raw, columns, df, census, kpis, tables, x>>

CallCanonServicio ==
    /\ pc = "text"
    /\ y.f = "none"
    /\ y' = [f |-> "canon_servicio", arg |-> Flatten(x), v |-> canon_servicio(Flatten(x))]
    /\ UNCHANGED <<unit, pc, raw, columns, df, census, kpis, tables, x>>

CallToBool ==
    /\ pc = "text"
    /\ y.f = "none"
    /\ y' = [f |-> "to_bool", arg |-> Flatten(x), v |-> to_bool(Flatten(x))]
    /\ UNCHANGED <<unit, pc, raw, columns, df, census, kpis, tables, x>>

NextText ==
    \/ TextAddPiece
    \/ CallCanonOutcome
    \/ CallCanonKpc
    \/ CallCanonServicio
    \/ CallToBool

SpecText == InitText /\ [][NextText]_vars

IsCanonCall == y.f \in {"canon_outcome", "canon_kpc", "canon_servicio"}

Canon(f, v) ==
    CASE f = "canon_outcome" -> canon_outcome(v)
      [] f = "canon_kpc" -> canon_kpc(v)
      [] f = "canon_servicio" -> canon_servicio(v)

\* C9: each of the three canonicalizers is idempotent: applied to its own
\* result it returns that result, f(f(x)) = f(x), for every text x.
C9_CanonIdempotent == IsCanonCall => Canon(y.f, y.v) = y.v

\* The characters of s between its leading and its trailing white space.
Core(s) ==
    LET ns == {i \in 1..Len(s) : ~IsSpace(s[i])}
    IN  IF ns = {} THEN <<>>
        ELSE SubSeq(s, CHOOSE i \in ns : \A j \in ns : i <= j,
                       CHOOSE i \in ns : \A j \in ns : j <= i)

SameIgnoringCase(a, b) ==
    /\ Len(a) = Len(b)
    /\ \A i \in 1..Len(a) : LowerChar(a[i]) = LowerChar(b[i])

\* s is a token of T, letter case and surrounding white space ignored.
MatchesToken(s, T) == \E t \in T : SameIgnoringCase(Core(s), t)

\* s is a token of T, letter case, surrounding white space and accents ignored.
MatchesTokenNoAccents(s, T) ==
    \E t \in T : SameIgnoringCase(FoldSeq(Core(s)), FoldSeq(t))

\* C10 (as amended): to_bool returns true for every text that is an
\* affirmative token and false for every text that is a negative token, where
\* matching ignores letter case and surrounding white space but not accents;
\* for every other text it returns the unknown value.
C10_ToBoolCaseAndSpace ==
    y.f = "to_bool" =>
        /\ MatchesToken(y.arg, si) => y.v = "True"
        /\ MatchesToken(y.arg, no) => y.v = "False"
        /\ ~MatchesToken(y.arg, si) /\ ~MatchesToken(y.arg, no) => y.v = "NA"

\* A text in upper case with white space around it was recognised.
C10_Witness ==
    /\ y.f = "to_bool"
    /\ y.v = "True"
    /\ y.arg \notin si
    /\ Len(y.arg) > Len(Core(y.arg))

\* C10 (as stated): the same, with accents ignored as well when matching.
C10_ToBoolAccentInsensitive ==
    y.f = "to_bool" =>
        /\ MatchesTokenNoAccents(y.arg, si) => y.v = "True"
        /\ MatchesTokenNoAccents(y.arg, no) => y.v = "False"
        /\ ~MatchesTokenNoAccents(y.arg, si) /\ ~MatchesTokenNoAccents(y.arg, no)
              => y.v = "NA"

\* ------------------------------------------ direct calls of parse_date_series
DateYears == {999, 1000, 1004, 1100, 1101, 1677, 1678, 2025, 2262, 2263}
DateDayMonths ==
    { <<1, 1>>, <<29, 2>>, <<21, 9>>, <<22, 9>>, <<11, 4>>, <<12, 4>>,
      <<31, 12>>, <<31, 4>>, <<5, 13>> }
DateHours == {0, 12}

DateCells ==
    { Cell("dmy", dm[1], dm[2], yr, hh) :
        dm \in DateDayMonths, yr \in DateYears, hh \in DateHours }
    \cup { Cell("iso", yr, dm[2], dm[1], hh) :
        dm \in DateDayMonths, yr \in DateYears, hh \in DateHours }
    \cup { NoDate(k) : k \in {"na", "blank", "nan", "NaT", "junk"} }

InitDate ==
    /\ unit \in {"ns", "us"}
    /\ pc = "date"
    /\ raw = <<>>
    /\ columns = {}
    /\ df = <<>>
    /\ census = <<>>
    /\ kpis = <<>>
    /\ tables = <<>>
    /\ x \in DateCells
    /\ y = NoCall

CallParseDate ==
    /\ pc = "date"
    /\ y.f = "none"
    /\ y' = [f |-> "parse_date_series", arg |-> x, v |-> parse_date_series(unit, x)]
    /\ UNCHANGED <<unit, pc, raw, columns, df, census, kpis, tables, x>>

NextDate == CallParseDate

SpecDate == InitDate /\ [][NextDate]_vars

\* The day, month and year a date text denotes, read day first.
TextDay(c) == IF c.kind = "iso" THEN c.c ELSE c.a
TextMonth(c) == c.b
TextYear(c) == IF c.kind = "iso" THEN c.a ELSE c.c

DenotesDate(c) ==
    /\ c.kind \in {"dmy", "iso"}
    /\ ValidDate(TextYear(c), TextMonth(c), TextDay(c))

\* C8: for every text that denotes a valid day-first calendar date,
\* parse_date_series returns a date, never the absent value, with the month
\* and the day of the text, and with the year of the text plus 1000 when that
\* year is in 1000..1100 and the year of the text otherwise.
C8_YearShiftOnValidDates ==
    (y.f = "parse_date_series" /\ DenotesDate(y.arg)) =>
        /\ y.v # NaT
        /\ y.v.month = TextMonth(y.arg)
        /\ y.v.day = TextDay(y.arg)
        /\ y.v.year = IF TextYear(y.arg) \in 1000..1100
                      THEN TextYear(y.arg) + 1000
                      ELSE TextYear(y.arg)

\* ------------------------------------------------- the rules of canon_kpc
\* The rules in the order negative, pending-return, prevalence, admission,
\* carrier / plasmid / MDR: the substrings of a rule and its label.
KpcRules ==
    << << {K_negativo}, L_Negativo >>,
       << {K_pendiente_retorno}, L_PendienteHR >>,
       << {K_prevalencia}, L_HRPrevalencia >>,
       << {K_ingreso}, L_HRIngreso >>,
       << {K_portador, K_plasmido, K_mdr}, L_PortadorMDR >> >>

\* The rules of which the folded, lower-cased text has a substring.
Matching(v) ==
    {k \in 1..Len(KpcRules) :
        \E key \in KpcRules[k][1] : Contains(lower(_accent_fold(v)), key)}

\* C14: canon_kpc returns the label of the earliest rule, in the order
\* negative, pending-return, prevalence, admission, carrier/plasmid/MDR, of
\* which the accent-folded lower-cased text contains a substring, and the
\* text itself, unchanged, when it contains none.
C14_KpcFirstMatchWins ==
    y.f = "canon_kpc" =>
       IF Matching(y.arg) = {}
       THEN y.v = y.arg
       ELSE \E k \in Matching(y.arg) :
               /\ \A o \in Matching(y.arg) : k <= o
               /\ y.v = KpcRules[k][2]

\* canon_kpc was called on a text in which a later rule's substring comes
\* before an earlier rule's, and returned the earlier rule's label.
C14_Witness ==
    /\ y.f = "canon_kpc"
    /\ Matching(y.arg) = {3, 4}
    /\ y.arg = K_ingreso \o <<"P","r","e","v","a","l","e","n","c","i","a">>
    /\ y.v = L_HRPrevalencia

\* ----------------------------------------------------- malformed values
\* The raw rows whose admission date parses.
Parseable == {i \in 1..Len(raw) : notna(parse_date_series(unit, raw[i].fec_ing))}

\* C12: prepare never fails on a table that has all its columns, whatever
\* the values of the cells are, and it keeps every row whose admission date
\* parses.
C12_MalformedFieldNeverFatal ==
    [][ (pc = "load" /\ pc' # "load")
        => ( /\ pc' = "prepared"
             /\ \A i \in Parseable : \E j \in 1..Len(df') : df'[j].idx = i ) ]_vars

\* ------------------------------------------------ absent grouping values
\* The number of rows of df whose cell of column col was missing in df_raw.
AbsentIn(col) == Cardinality({j \in 1..Len(df) : raw[df[j].idx][col] = NA})

\* C13: in each of the four tables of group_tables (by physician, origin,
\* patient type, lab status) the rows of df whose grouping value was missing
\* in the raw table are counted under the key "No informado".
C13_AbsentCountedAsNoInformado ==
    pc = "tables" =>
       /\ AbsentIn("medico") > 0 =>
             \E g \in tables.por_medico :
                g.key = L_NoInformado /\ g.Casos >= AbsentIn("medico")
       /\ AbsentIn("origen") > 0 =>
             \E g \in tables.por_origen :
                g.key = L_NoInformado /\ g.Casos >= AbsentIn("origen")
       /\ AbsentIn("tipo") > 0 =>
             \E g \in tables.por_tipo :
                g.key = L_NoInformado /\ g.Casos >= AbsentIn("tipo")
       /\ AbsentIn("kpc_mbl") > 0 =>
             \E g \in tables.kpc :
                g.Estado = L_NoInformado /\ g.Pacientes >= AbsentIn("kpc_mbl")

\* ------------------------------------------- tables with a missing column
\* The columns a table may lack: all of RawCols but the admission date.
OptionalCols == RawCols \ {"fec_ing"}

\* The tables that lack at most MaxMissing of the optional columns.
InitCols ==
    /\ unit \in {"ns", "us"}
    /\ pc = "load"
    /\ raw = <<>>
    /\ \E M \in SUBSET OptionalCols :
          Cardinality(M) <= MaxMissing /\ columns = RawCols \ M
    /\ df = <<>>
    /\ census = <<>>
    /\ kpis = <<>>
    /\ tables = <<>>
    /\ x = <<>>
    /\ y = NoCall

NextCols ==
    \/ LoadRow
    \/ Prepare

SpecCols == InitCols /\ [][NextCols]_vars

\* The columns of df_raw that are missing.
MissingCols == RawCols \ columns

\* C11: when optional columns are entirely missing from the input table and
\* no value of the table makes prepare fail by itself, prepare completes
\* without raising and its table has the column los_final.
C11_MissingOptionalColumnTolerated ==
    ( /\ pc # "load"
      /\ MissingCols # {}
      /\ MissingCols \subseteq OptionalCols
      /\ ~ \E col \in IntCols \cap columns : to_int_raises(Column(raw, col)) )
    => (pc = "prepared" /\ "los_final" \in columns)

====
